---- MODULE Spec2Model ----
(***************************************************************************)
(* extra_views/views.py: MultiFormMixin (a master model form plus extra    *)
(* model forms and inline formsets handled by one request) and             *)
(* BetterListView (a list view with search and queryset actions).          *)
(*                                                                         *)
(* A request is handled by one view instance; each handler is one action   *)
(* that computes the whole call tree of the handler.  Python exceptions    *)
(* that leave a handler are recorded as the response ("ImproperlyConfi-    *)
(* gured", "TypeError", "AttributeError").                                 *)
(***************************************************************************)
EXTENDS Integers, Sequences, FiniteSets, TLC

\* ------------------------------------------------------------------ bounds

\* Largest number of entries of extra_form_classes.
MaxExtraForms == 2

\* Largest number of declared inline formsets.
MaxFormsets == 1

\* Longest search term `q` of a request.
MaxTermLen == 2

VARIABLES
    \* --- MultiFormMixin: the view class and the submitted data
    extra_form_classes, \* the `extra_form_classes` attribute (an OrderedDict), as a sequence of descriptors
    formset_decl,       \* the inline formset descriptors the view declares
    formset_attr,       \* the name of the attribute they are declared under
    has_object,         \* whether get_object() returns an object (UpdateView) or raises AttributeError
    master_valid,       \* what form.is_valid() returns for the master form with the submitted data
    \* --- MultiFormMixin: the outcome of the request
    method,             \* "none" before the request, then "GET" or "POST"
    response,           \* what the handler returned, or the exception that left it
    validated,          \* the is_valid() calls made, in order
    saved,              \* the database writes made, in order
    object,             \* self.object when the handler ends
    context,            \* extra_forms / formsets handed to the template
    \* --- BetterListView: the view class and the table of its model
    read_only,          \* the `read_only` attribute: "True", "False", or "absent" (never assigned)
    search_fields,      \* the `search_fields` attribute
    get_search_fields_override, \* what an overriding get_search_fields returns, if the view overrides it
    get_prefix_override,\* whether the view overrides get_prefix
    has_action_method,  \* whether the view defines the queryset action `archive_selected`
    objects,            \* the primary keys of the rows of the model's table
    \* --- BetterListView: the last request and its outcome
    request,            \* method, search term, action name and ids of the request
    list_response,      \* what the handler returned, or the exception that left it
    object_list,        \* the queryset get_queryset returned, as a sequence of primary keys
    objects_before,     \* the table when the request arrived
    dispatched          \* the call of process_action the request made, if any

multiVars == <<extra_form_classes, formset_decl, formset_attr, has_object, master_valid,
               method, response, validated, saved, object, context>>

listVars == <<read_only, search_fields, get_search_fields_override, get_prefix_override,
              has_action_method, objects, request, list_response, object_list,
              objects_before, dispatched>>

vars == <<multiVars, listVars>>

\* ------------------------------------------------------- form descriptors

\* A descriptor is the settings dictionary of one extra form or formset,
\* together with what the form built from it does when it is used:
\*   form_class    "class": a form class; "func": a function returning one;
\*                 "func_none": a function returning nothing; "absent": neither
\*                 `form_class` nor `formset_class` is in the dictionary
\*   instance      "absent", "value" (a model instance), "callable" (lambda self: ...)
\*   fk            the key naming the foreign key attribute: "foreign_key_field",
\*                 "field_name_for_object" or "absent"
\*   setattr_fails setattr(extra_obj, <fk>, object) raises
\*   has_save      the form has a callable `save` (a model form)
\*   valid         what is_valid() returns on the bound form
Descriptor(fc, inst, fk, sf, hs, v) ==
    [form_class |-> fc, instance |-> inst, fk |-> fk,
     setattr_fails |-> sf, has_save |-> hs, valid |-> v]

\* The descriptors of extra forms the model draws from.
ExtraDescriptors ==
    {Descriptor("class", "callable", fk[1], fk[2], TRUE, v) :
        fk \in {<<"foreign_key_field", FALSE>>, <<"foreign_key_field", TRUE>>,
                <<"field_name_for_object", FALSE>>, <<"absent", FALSE>>},
        v \in BOOLEAN}
    \cup {Descriptor(fc, "callable", "foreign_key_field", FALSE, TRUE, TRUE) :
        fc \in {"func", "func_none", "absent"}}
    \cup {Descriptor("class", inst, "foreign_key_field", FALSE, TRUE, TRUE) :
        inst \in {"absent", "value"}}
    \cup {Descriptor("class", "callable", "absent", FALSE, FALSE, TRUE)}

\* The descriptors of inline formsets the model draws from.
FormsetDescriptors ==
    {Descriptor("class", "absent", "absent", FALSE, TRUE, v) : v \in BOOLEAN}
    \cup {Descriptor(fc, "absent", "absent", FALSE, TRUE, TRUE) :
        fc \in {"func_none", "absent"}}

SeqsUpTo(S, n) == UNION {[1..k -> S] : k \in 0..n}

\* ---------------------------------------------------------- MultiFormMixin

NoForms == [err |-> "none", forms |-> <<>>]

get_extra_form_classes(efc) == efc

\* Where a view may declare its inline formsets: the attribute the mixin reads,
\* or the attribute or the method its docstring names.
FormsetAttrs == {"formset_classes", "extra_formset_classes", "get_extra_formset_classes"}

\* Only the attribute `formset_classes` is read.
get_formset_classes(attr, decl) ==
    IF attr = "formset_classes" THEN decl ELSE <<>>

\* The instance the form of descriptor d is constructed with.
FormInstance(d, is_formset, obj) ==
    IF ~is_formset /\ d.instance = "callable" THEN "computed_instance"
    ELSE IF is_formset THEN obj
    ELSE "None"

RECURSIVE GetFormsFrom(_, _, _, _, _)
GetFormsFrom(form_classes, is_formset, obj, bound, i) ==
    IF i > Len(form_classes) THEN NoForms
    ELSE LET d == form_classes[i] IN
         IF d.form_class = "absent"
         THEN [err |-> "ImproperlyConfigured", forms |-> <<>>]
         ELSE IF d.form_class = "func_none"
         THEN [err |-> "TypeError", forms |-> <<>>]
         ELSE LET form == [prefix |-> i, settings |-> d, bound |-> bound,
                           instance |-> FormInstance(d, is_formset, obj)]
                  rest == GetFormsFrom(form_classes, is_formset, obj, bound, i + 1)
              IN IF rest.err # "none" THEN rest
                 ELSE [err |-> "none", forms |-> <<form>> \o rest.forms]

_get_forms(form_classes, is_formset, obj, bound) ==
    GetFormsFrom(form_classes, is_formset, obj, bound, 1)

\* self._extra_forms / self._formsets: set once the forms were built.
Unset == [set |-> FALSE, forms |-> <<>>]
Cached(forms) == [set |-> TRUE, forms |-> forms]

get_extra_forms(cache, efc, obj, bound) ==
    IF cache.set THEN [err |-> "none", forms |-> cache.forms]
    ELSE _get_forms(get_extra_form_classes(efc), FALSE, obj, bound)

get_formsets(cache, attr, decl, obj, bound) ==
    IF cache.set THEN [err |-> "none", forms |-> cache.forms]
    ELSE _get_forms(get_formset_classes(attr, decl), TRUE, obj, bound)

NoContext == [rendered |-> FALSE, extra_forms |-> <<>>, formsets |-> <<>>]

\* get_context_data builds the formsets first, then the extra forms.
get_context_data(cacheE, cacheF, efc, attr, decl, obj, bound) ==
    LET fs == get_formsets(cacheF, attr, decl, obj, bound)
        ef == get_extra_forms(cacheE, efc, obj, bound)
    IN IF fs.err # "none" THEN [err |-> fs.err, context |-> NoContext]
       ELSE IF ef.err # "none" THEN [err |-> ef.err, context |-> NoContext]
       ELSE [err |-> "none",
             context |-> [rendered |-> TRUE, extra_forms |-> ef.forms,
                          formsets |-> fs.forms]]

\* An outcome of a handler.
Outcome(resp, val, sav, obj, ctx) ==
    [response |-> resp, validated |-> val, saved |-> sav, object |-> obj, context |-> ctx]

form_invalid(val, cacheE, cacheF, efc, attr, decl, obj) ==
    LET c == get_context_data(cacheE, cacheF, efc, attr, decl, obj, TRUE)
    IN IF c.err # "none" THEN Outcome(c.err, val, <<>>, obj, NoContext)
       ELSE Outcome("form_invalid", val, <<>>, obj, c.context)

\* The is_valid() calls of a loop over forms, in order.
IsValidCalls(kind, forms) ==
    [i \in 1..Len(forms) |-> [kind |-> kind, name |-> forms[i].prefix]]

extra_forms_is_valid_last(forms) ==
    Len(forms) = 0 \/ forms[Len(forms)].settings.valid

extra_forms_is_valid(forms) ==
    \A i \in 1..Len(forms) : forms[i].settings.valid

formsets_is_valid(formsets) ==
    \A i \in 1..Len(formsets) : formsets[i].settings.valid

\* One write to the database.  fk is the value of the foreign key attribute
\* (for a formset, formset.instance) when the row is written.
Save(kind, name, fk) == [kind |-> kind, name |-> name, fk |-> fk]

\* form.save() of the master form returns the saved master object.
form_valid(obj) == [object |-> "saved", saved |-> <<Save("master", 0, "None")>>,
                    next |-> "redirect_success"]

RECURSIVE ExtraFormsValidFrom(_, _, _)
ExtraFormsValidFrom(extra_forms, obj, i) ==
    IF i > Len(extra_forms) THEN [err |-> "none", saved |-> <<>>]
    ELSE LET form == extra_forms[i] IN
         IF ~form.settings.has_save
         THEN ExtraFormsValidFrom(extra_forms, obj, i + 1)
         ELSE IF form.settings.fk = "absent"
         THEN [err |-> "ImproperlyConfigured", saved |-> <<>>]
         ELSE LET fk == IF form.settings.setattr_fails THEN "unset" ELSE obj
                  rest == ExtraFormsValidFrom(extra_forms, obj, i + 1)
              IN [err |-> rest.err,
                  saved |-> <<Save("extra", form.prefix, fk)>> \o rest.saved]

extra_forms_valid(extra_forms, obj) == ExtraFormsValidFrom(extra_forms, obj, 1)

formsets_valid(formsets, obj) ==
    [i \in 1..Len(formsets) |-> Save("formset", formsets[i].prefix, obj)]

\* The branch of post taken when every form is valid.
post_valid_formsets_first(val, extra_forms, formsets, obj, ctx) ==
    LET m == form_valid(obj)
        f == formsets_valid(formsets, m.object)
        e == extra_forms_valid(extra_forms, m.object)
    IN IF e.err # "none"
       THEN Outcome(e.err, val, f \o m.saved \o e.saved, m.object, ctx)
       ELSE Outcome(m.next, val, f \o m.saved \o e.saved, m.object, ctx)

post_valid(val, extra_forms, formsets, obj, ctx) ==
    LET m == form_valid(obj)
        e == extra_forms_valid(extra_forms, m.object)
    IN IF e.err # "none"
       THEN Outcome(e.err, val, m.saved \o e.saved, m.object, ctx)
       ELSE Outcome(m.next, val,
                    m.saved \o e.saved \o formsets_valid(formsets, m.object),
                    m.object, ctx)

\* MultiFormMixin.post.  `and` evaluates its right operand only when the left
\* one is true, so the forms of a later group are built and validated only when
\* every earlier form is valid.
post(efc, attr, decl, ho, mv) ==
    LET obj == IF ho THEN "loaded" ELSE "None"
        v1  == <<[kind |-> "form", name |-> 0]>>
    IN IF ~mv THEN form_invalid(v1, Unset, Unset, efc, attr, decl, obj)
       ELSE
       LET ef == get_extra_forms(Unset, efc, obj, TRUE)
           v2 == v1 \o IsValidCalls("extra", ef.forms)
       IN IF ef.err # "none" THEN Outcome(ef.err, v1, <<>>, obj, NoContext)
          ELSE IF ~extra_forms_is_valid(ef.forms)
          THEN form_invalid(v2, Cached(ef.forms), Unset, efc, attr, decl, obj)
          ELSE
          LET fs == get_formsets(Unset, attr, decl, obj, TRUE)
              v3 == v2 \o IsValidCalls("formset", fs.forms)
          IN IF fs.err # "none" THEN Outcome(fs.err, v2, <<>>, obj, NoContext)
             ELSE IF ~formsets_is_valid(fs.forms)
             THEN form_invalid(v3, Cached(ef.forms), Cached(fs.forms),
                               efc, attr, decl, obj)
             ELSE post_valid(v3, ef.forms, fs.forms, obj, NoContext)

\* A GET renders the page: get_context_data with unbound forms.
get(efc, attr, decl, ho) ==
    LET obj == IF ho THEN "loaded" ELSE "None"
        c == get_context_data(Unset, Unset, efc, attr, decl, obj, FALSE)
    IN IF c.err # "none" THEN Outcome(c.err, <<>>, <<>>, obj, NoContext)
       ELSE Outcome("rendered", <<>>, <<>>, obj, c.context)

\* ------------------------------------------------------ what the claims use

ConfigErrors == {"ImproperlyConfigured", "TypeError"}

\* The formsets the request works with.
Formsets == get_formset_classes(formset_attr, formset_decl)

HasFormClass(d) == d.form_class \in {"class", "func"}

\* Every descriptor can be built into a form.
AllBuildable ==
    /\ \A i \in 1..Len(extra_form_classes) : HasFormClass(extra_form_classes[i])
    /\ \A j \in 1..Len(Formsets) : HasFormClass(Formsets[j])

\* A form or formset of the request that does not validate.
SomeInvalid ==
    \/ ~master_valid
    \/ \E i \in 1..Len(extra_form_classes) :
          HasFormClass(extra_form_classes[i]) /\ ~extra_form_classes[i].valid
    \/ \E j \in 1..Len(Formsets) : HasFormClass(Formsets[j]) /\ ~Formsets[j].valid

AllValid ==
    /\ master_valid
    /\ \A i \in 1..Len(extra_form_classes) : extra_form_classes[i].valid
    /\ \A j \in 1..Len(Formsets) : Formsets[j].valid

WasValidated(kind, name) ==
    \E k \in 1..Len(validated) : validated[k] = [kind |-> kind, name |-> name]

SavedAt(kind, name) ==
    {k \in 1..Len(saved) : saved[k].kind = kind /\ saved[k].name = name}

\* C1 as stated: a write request with an invalid form persists nothing and its
\* response is the re-rendered page.
C1_InvalidRerenders ==
    (method = "POST" /\ SomeInvalid) => (saved = <<>> /\ response = "form_invalid")

\* C1, amended: a write request with an invalid form persists nothing and never
\* answers with the success redirect; its response is the re-rendered page
\* exactly when every descriptor can be built into a form, and the configuration
\* error of the descriptor that cannot otherwise.
C1_InvalidPersistsNothing ==
    (method = "POST" /\ SomeInvalid) =>
        /\ saved = <<>>
        /\ object # "saved"
        /\ response # "redirect_success"
        /\ AllBuildable => response = "form_invalid"
        /\ ~AllBuildable => response \in ConfigErrors

C1_Witness ==
    /\ method = "POST"
    /\ master_valid
    /\ Len(extra_form_classes) = 2
    /\ ~extra_form_classes[1].valid
    /\ extra_form_classes[2].valid
    /\ response = "form_invalid"
    /\ saved = <<>>

\* C2: on a write request whose forms can all be built, is_valid() is called on
\* the master form, on every extra form and on every formset, whatever the
\* earlier ones returned.
C2_AllFormsValidated ==
    (method = "POST" /\ AllBuildable) =>
        /\ WasValidated("form", 0)
        /\ \A i \in 1..Len(extra_form_classes) : WasValidated("extra", i)
        /\ \A j \in 1..Len(Formsets) : WasValidated("formset", j)

\* Descriptors as the docstring requires them: a form class, a model form, and
\* the key naming the foreign key attribute.
WellConfigured ==
    /\ AllBuildable
    /\ \A i \in 1..Len(extra_form_classes) :
          extra_form_classes[i].has_save /\ extra_form_classes[i].fk # "absent"

\* C3: when every form of a write request validates, the master, one entity
\* per extra form and every formset are persisted, and the foreign key of every
\* persisted extra entity is the persisted master, also when the assignment of
\* the foreign key attribute fails.
C3_AllPersistedWithForeignKey ==
    (method = "POST" /\ AllValid /\ WellConfigured) =>
        /\ SavedAt("master", 0) # {}
        /\ \A i \in 1..Len(extra_form_classes) :
              /\ SavedAt("extra", i) # {}
              /\ \A k \in SavedAt("extra", i) : saved[k].fk = "saved"
        /\ \A j \in 1..Len(Formsets) : SavedAt("formset", j) # {}

\* C4: a write request that ends in a failure (anything but the success
\* redirect) has persisted nothing.
C4_NoPartialWrites ==
    (method = "POST" /\ response # "redirect_success") => saved = <<>>

DeclaredInstance(d) ==
    IF d.instance = "value" THEN "given_instance"
    ELSE IF d.instance = "callable" THEN "computed_instance"
    ELSE "None"

\* C6: an extra form whose descriptor gives `instance`, as a value or as a
\* callable, is constructed bound to that entity.
C6_InstanceBound ==
    context.rendered =>
        \A i \in 1..Len(context.extra_forms) :
            context.extra_forms[i].instance =
                DeclaredInstance(context.extra_forms[i].settings)

\* C7: the formsets a view declares as `extra_formset_classes` or through
\* `get_extra_formset_classes` are constructed and passed to the template, and
\* on a write request they are validated and, when all forms are valid, saved.
C7_DeclaredFormsetsParticipate ==
    (formset_attr \in {"extra_formset_classes", "get_extra_formset_classes"}
        /\ \A j \in 1..Len(formset_decl) : HasFormClass(formset_decl[j])) =>
        /\ context.rendered => Len(context.formsets) = Len(formset_decl)
        /\ (method = "POST" /\ response = "redirect_success") =>
              \A j \in 1..Len(formset_decl) :
                  WasValidated("formset", j) /\ SavedAt("formset", j) # {}

\* ---------------------------------------------------------- BetterListView

\* Text is a sequence of characters.
Alphabet == {"a", "A", "b"}

Lower(c) == IF c = "A" THEN "a" ELSE c

LowerText(t) == [k \in 1..Len(t) |-> Lower(t[k])]

\* `needle` occurs in `hay`.
Occurs(needle, hay) ==
    \E off \in 0..(Len(hay) - Len(needle)) :
        \A k \in 1..Len(needle) : hay[off + k] = needle[k]

\* The lookup <field>__icontains.
icontains(value, term) == Occurs(LowerText(term), LowerText(value))

\* The rows the table of the model may hold, by primary key.
Rows == <<[name |-> <<"A", "b">>, note |-> <<>>],
          [name |-> <<"b">>,      note |-> <<"b", "A">>],
          [name |-> <<>>,         note |-> <<"a">>]>>

Pks == 1..Len(Rows)

Field(pk, field) == IF field = "name" THEN Rows[pk].name ELSE Rows[pk].note

\* ListView.get_queryset: every row of the table, by primary key.
RECURSIVE AllFrom(_, _)
AllFrom(objs, pk) ==
    IF pk > Len(Rows) THEN <<>>
    ELSE (IF pk \in objs THEN <<pk>> ELSE <<>>) \o AllFrom(objs, pk + 1)

BaseQueryset(objs) == AllFrom(objs, 1)

\* Q() | Q(f1__icontains=q) | ...: an empty Q restricts nothing.
QMatches(fields, q, pk) ==
    Len(fields) = 0 \/ \E k \in 1..Len(fields) : icontains(Field(pk, fields[k]), q)

\* BetterListView.get_queryset, for the search term q ('' when the request has none).
get_queryset(objs, fields, q) ==
    LET queryset == BaseQueryset(objs)
        Keep(pk) == QMatches(fields, q, pk)
    IN IF q # <<>> THEN SelectSeq(queryset, Keep) ELSE queryset

get_search_fields(attr, override) ==
    IF override.defined THEN override.fields ELSE attr

get_prefix(override) == IF override THEN "custom" ELSE "items"

\* self.prefix
prefix == "items"

Redirect(p) == [kind |-> "redirect", to |-> <<p, "_index">>]
Raise(exc) == [kind |-> "error", to |-> <<exc>>]
NoResponse == [kind |-> "none", to |-> <<>>]

NotDispatched == [called |-> FALSE, action |-> "", queryset |-> {}]

ListOutcome(resp, objs, disp) ==
    [response |-> resp, objects |-> objs, dispatched |-> disp]

delete_selected(objs, queryset) ==
    [response |-> Redirect(prefix), objects |-> objs \ queryset]

\* The action names a request may carry: none, the built-in one, a method the
\* view may define, a name that is no attribute of the view, and the name of
\* an attribute that is not callable.
ActionNames == {"", "delete_selected", "archive_selected", "no_such_action", "prefix"}

\* process_action(action, queryset), called with read_only = ro.
process_action(ro, ham, objs, action, queryset) ==
    LET disp == [called |-> TRUE, action |-> action, queryset |-> queryset]
    IN IF ro = "absent" THEN ListOutcome(Raise("AttributeError"), objs, disp)
       ELSE IF ro = "True" THEN ListOutcome(Redirect(prefix), objs, disp)
       ELSE IF action = "delete_selected"
       THEN LET d == delete_selected(objs, queryset)
            IN ListOutcome(d.response, d.objects, disp)
       ELSE IF action = "archive_selected" /\ ham
       THEN ListOutcome([kind |-> "action", to |-> <<action>>], objs, disp)
       ELSE IF action = "prefix"
       THEN ListOutcome(Raise("TypeError"), objs, disp)
       ELSE ListOutcome(Raise("AttributeError"), objs, disp)

\* BetterListView.post
list_post(ro, gpo, ham, objs, action, ids) ==
    IF ro = "absent" THEN ListOutcome(Raise("AttributeError"), objs, NotDispatched)
    ELSE IF ro = "False" /\ action # ""
    THEN process_action(ro, ham, objs, action, ids \cap objs)
    ELSE ListOutcome(Redirect(get_prefix(gpo)), objs, NotDispatched)

Terms == SeqsUpTo(Alphabet, MaxTermLen)

\* The values of search_fields the model draws from.
SearchFieldLists == {<<>>, <<"name">>, <<"note">>, <<"name", "note">>}

Inherited == [defined |-> FALSE, fields |-> <<>>]

NoRequest == [method |-> "none", q |-> <<>>, action |-> "", ids |-> {}]

\* The search fields the view declares, through the attribute or the method.
DeclaredSearchFields == get_search_fields(search_fields, get_search_fields_override)

\* C8: without a search term the listing is the base queryset; with a term,
\* on a view that declares search fields, it is, in the same order, the rows of
\* the base queryset in which a declared search field contains the term,
\* whatever the case of the letters.
C8_SearchIsDeclaredSubset ==
    request.method = "GET" =>
        LET Hit(pk) ==
                \E k \in 1..Len(DeclaredSearchFields) :
                    icontains(Field(pk, DeclaredSearchFields[k]), request.q)
        IN IF request.q = <<>>
           THEN object_list = BaseQueryset(objects)
           ELSE Len(DeclaredSearchFields) > 0 =>
                    object_list = SelectSeq(BaseQueryset(objects), Hit)

\* The listing route of the view.
ListingRoute == Redirect(get_prefix(get_prefix_override))

\* C9: a POST to a read-only view changes no row, calls no action and
\* redirects to the listing route; a POST that names an action to a view whose
\* read_only flag is not set calls process_action with that action and the
\* rows whose primary key was submitted.
C9_ReadOnlyOrDispatch ==
    request.method = "POST" =>
        /\ read_only = "True" =>
              /\ objects = objects_before
              /\ ~dispatched.called
              /\ list_response = ListingRoute
        /\ (read_only # "True" /\ request.action # "") =>
              dispatched = [called |-> TRUE, action |-> request.action,
                            queryset |-> request.ids \cap objects_before]

\* An action the view knows: the built-in one or a method the view defines.
Recognized(action) ==
    action = "delete_selected" \/ (action = "archive_selected" /\ has_action_method)

\* C10: a POST whose action name is not a recognized action, to a view that
\* sets read_only, changes no row and redirects to the listing route.
C10_UnknownActionRedirects ==
    (request.method = "POST" /\ read_only # "absent" /\ ~Recognized(request.action)) =>
        /\ objects = objects_before
        /\ list_response = ListingRoute

\* C11: a POST with action delete_selected to a view that is not read-only
\* removes the rows whose primary key was submitted and no other row (none
\* when no id was submitted), and redirects to the listing route.
C11_DeleteSelectedExactly ==
    (request.method = "POST" /\ read_only # "True"
        /\ request.action = "delete_selected") =>
        /\ objects = objects_before \ request.ids
        /\ list_response = ListingRoute

\* ------------------------------------------------------------ the requests

InitMulti ==
    /\ extra_form_classes \in SeqsUpTo(ExtraDescriptors, MaxExtraForms)
    /\ formset_decl \in SeqsUpTo(FormsetDescriptors, MaxFormsets)
    /\ formset_attr \in FormsetAttrs
    /\ has_object \in BOOLEAN
    /\ master_valid \in BOOLEAN
    /\ method = "none"
    /\ response = "none"
    /\ validated = <<>>
    /\ saved = <<>>
    /\ object = "None"
    /\ context = NoContext

\* A view class that leaves the attributes of BetterListView as they are.
ListDefaults ==
    /\ read_only = "absent"
    /\ search_fields = <<>>
    /\ get_search_fields_override = Inherited
    /\ get_prefix_override = FALSE
    /\ has_action_method = FALSE

ListIdle ==
    /\ request = NoRequest
    /\ list_response = NoResponse
    /\ object_list = <<>>
    /\ objects_before = objects
    /\ dispatched = NotDispatched

\* A view that is no MultiFormMixin view.
MultiIdle ==
    /\ extra_form_classes = <<>>
    /\ formset_decl = <<>>
    /\ formset_attr = "formset_classes"
    /\ has_object = FALSE
    /\ master_valid = FALSE
    /\ method = "none"
    /\ response = "none"
    /\ validated = <<>>
    /\ saved = <<>>
    /\ object = "None"
    /\ context = NoContext

\* List views that differ in how they declare their search fields.
InitSearch ==
    /\ MultiIdle
    /\ read_only = "False"
    /\ search_fields \in SearchFieldLists
    /\ get_search_fields_override \in
          {Inherited} \cup {[defined |-> TRUE, fields |-> f] : f \in SearchFieldLists}
    /\ get_prefix_override = FALSE
    /\ has_action_method = FALSE
    /\ objects \in SUBSET Pks
    /\ ListIdle

\* List views that differ in read_only, get_prefix and their actions.
InitList ==
    /\ MultiIdle
    /\ read_only \in {"absent", "True", "False"}
    /\ search_fields = <<>>
    /\ get_search_fields_override = Inherited
    /\ get_prefix_override \in BOOLEAN
    /\ has_action_method \in BOOLEAN
    /\ objects = Pks
    /\ ListIdle

ListConfigUnchanged ==
    UNCHANGED <<read_only, search_fields, get_search_fields_override,
                get_prefix_override, has_action_method>>

\* GET ?q=<term>, or GET without q.
ListGet(q) ==
    /\ request' = [method |-> "GET", q |-> q, action |-> "", ids |-> {}]
    /\ object_list' = get_queryset(objects, search_fields, q)
    /\ list_response' = [kind |-> "page", to |-> <<>>]
    /\ objects_before' = objects
    /\ dispatched' = NotDispatched
    /\ UNCHANGED objects
    /\ ListConfigUnchanged
    /\ UNCHANGED multiVars

\* POST action=<action>&id=<id>&id=...
ListPost(action, ids) ==
    LET out == list_post(read_only, get_prefix_override, has_action_method,
                         objects, action, ids)
    IN /\ request' = [method |-> "POST", q |-> <<>>, action |-> action, ids |-> ids]
       /\ list_response' = out.response
       /\ objects' = out.objects
       /\ objects_before' = objects
       /\ dispatched' = out.dispatched
       /\ UNCHANGED object_list
       /\ ListConfigUnchanged
       /\ UNCHANGED multiVars

Finish(m, out) ==
    /\ method' = m
    /\ response' = out.response
    /\ validated' = out.validated
    /\ saved' = out.saved
    /\ object' = out.object
    /\ context' = out.context
    /\ UNCHANGED <<extra_form_classes, formset_decl, formset_attr, has_object, master_valid>>
    /\ UNCHANGED listVars

Post ==
    /\ method = "none"
    /\ Finish("POST", post(extra_form_classes, formset_attr, formset_decl,
                           has_object, master_valid))

Get ==
    /\ method = "none"
    /\ Finish("GET", get(extra_form_classes, formset_attr, formset_decl, has_object))

\* The requests to a MultiFormMixin view.
Init == InitMulti /\ ListDefaults /\ objects = Pks /\ ListIdle

Next == Post \/ Get

Spec == Init /\ [][Next]_vars

\* The search requests to a BetterListView.
NextSearch == \E q \in Terms : ListGet(q)

SpecSearch == InitSearch /\ [][NextSearch]_vars

\* The action requests to a BetterListView.
NextList == \E action \in ActionNames, ids \in SUBSET Pks : ListPost(action, ids)

SpecList == InitList /\ [][NextList]_vars

====
